---- MODULE Spec2Model ----
(***************************************************************************)
(* Model of ds_ob::OrderBook (src/src/main.cpp, the definition that starts *)
(* at line 353): two fixed arrays of Order kept in price/time priority,    *)
(* the number of live slots of each, and one incrementally maintained      *)
(* BestQuote per side.  Every handler (on_add, on_cancel, on_modify,       *)
(* on_trade) is one action, translated statement by statement.             *)
(*                                                                         *)
(* The arrays hold max_number_live_orders = 100 slots.  The model explores *)
(* the runs that add at most MaxId orders (ids 0, 1, ... in arrival order, *)
(* as the test driver numbers them), so that only the slots 0..MaxId are   *)
(* ever written; the slots above are still in their default-constructed    *)
(* state and are read through OrderAt.  A failing assert aborts the        *)
(* default build and is compiled out of the release build (-DNDEBUG):      *)
(* assert_failed records that one has failed, and the states in which it   *)
(* is FALSE are the states both builds reach.                              *)
(*                                                                         *)
(* Spec makes the calls the contract allows.  SpecAnyCall adds to them one *)
(* call outside the contract (an id that is not live, or live already; a   *)
(* quantity that is not positive; a fill above the resting quantity), and  *)
(* SpecArrays drives the ask side to the last slots of its array, where    *)
(* on_add indexes past the end.  SpecAddCancel makes on_add and on_cancel  *)
(* calls alone, for one order more.  outcome tells how the last call       *)
(* ended.                                                                  *)
(* pre_add and net_quantity record what the calls so far have asked for:   *)
(* the live orders before an on_add that an on_cancel has just undone, and *)
(* the quantity added minus the quantity traded, cancelled or modified     *)
(* away.                                                                   *)
(***************************************************************************)
EXTENDS Integers, Sequences, FiniteSets, TLC

\* ---------------------------------------------------------------- bounds
MaxId == 3
MaxPrice == 2
MaxQty == 2

Ids == 0 .. (MaxId - 1)
Prices == 1 .. MaxPrice
Quantities == 1 .. MaxQty
Slots == 0 .. MaxId

\* ------------------------------------------------------------- constants
max_number_live_orders == 100
missing_id == -1
missing_price == -1
missing_quantity == -1
\* std::numeric_limits<usize>::max(), which is above every array index; it is
\* written as the largest value a 32-bit integer holds
invalid_idx == 2147483647

VARIABLES orders_ask_, orders_bid_, orders_filled_bid_, orders_filled_ask_,
          best_quote_ask_, best_quote_bid_, assert_failed, last, n_added,
          pre_add, net_quantity, outcome

vars == <<orders_ask_, orders_bid_, orders_filled_bid_, orders_filled_ask_,
          best_quote_ask_, best_quote_bid_, assert_failed, last, n_added,
          pre_add, net_quantity, outcome>>

\* struct Order, default member initialisers
DefaultOrder == [id |-> missing_id, side |-> "Bid", price |-> missing_price,
                 quantity |-> missing_quantity]

\* struct BestQuote, default member initialisers
EmptyQuote == [price |-> missing_price, quantity |-> missing_quantity]

\* orders[i] of a std::array whose slots above MaxId were never written
OrderAt(orders, i) == IF i \in DOMAIN orders THEN orders[i] ELSE DefaultOrder

\* the OrderBook object as one value
Book == [orders_ask_ |-> orders_ask_, orders_bid_ |-> orders_bid_,
         orders_filled_bid_ |-> orders_filled_bid_,
         orders_filled_ask_ |-> orders_filled_ask_,
         best_quote_ask_ |-> best_quote_ask_,
         best_quote_bid_ |-> best_quote_bid_]

\* BestQuote::is_empty: the assert fails when only one member is missing
is_empty_assert(q) == (q.price = missing_price) = (q.quantity = missing_quantity)

is_empty(q) == q.price = missing_price

\* BestQuote::clear
clear(q) == [q EXCEPT !.price = missing_price, !.quantity = missing_quantity]

\* cmp with the bid comparator taken for both sides
cmp_ascending(side, p1, p2) == p1 < p2

\* the two comparators of on_add: cmp(element, new_order)
cmp(side, p1, p2) == IF side = "Ask" THEN p1 > p2 ELSE p1 < p2

\* lower_bound with std::upper_bound called in its place: the first slot the
\* new order compares before
RECURSIVE upper_bound(_, _, _, _, _)
upper_bound(orders, first, len, price, side) ==
    IF len <= 0 THEN first
    ELSE LET half == len \div 2
             middle == first + half
         IN IF ~cmp(side, price, orders[middle].price)
            THEN upper_bound(orders, middle + 1, len - half - 1, price, side)
            ELSE upper_bound(orders, first, half, price, side)

\* std::lower_bound(orders.begin(), end, new_order, cmp): the halving search
RECURSIVE lower_bound(_, _, _, _, _)
lower_bound(orders, first, len, price, side) ==
    IF len <= 0 THEN first
    ELSE LET half == len \div 2
             middle == first + half
         IN IF cmp(side, orders[middle].price, price)
            THEN lower_bound(orders, middle + 1, len - half - 1, price, side)
            ELSE lower_bound(orders, first, half, price, side)

\* std::swap(orders[i], orders[j])
swap(orders, i, j) == [orders EXCEPT ![i] = orders[j], ![j] = orders[i]]

\* on_add, Side::Ask: while(it > orders.begin() + 1 && (it - 1)->price == price) --it
RECURSIVE walk_ask(_, _, _)
walk_ask(orders, it, price) ==
    IF it > 1 /\ orders[it - 1].price = price
    THEN walk_ask(orders, it - 1, price)
    ELSE it

\* on_add, Side::Bid: while(it > orders.begin() && it->price == price) --it
RECURSIVE walk_bid(_, _, _)
walk_bid(orders, it, price) ==
    IF it > 0 /\ orders[it].price = price
    THEN walk_bid(orders, it - 1, price)
    ELSE it

\* on_add: for(usize i = orders_filled; i > idx; --i) swap(orders[i - 1], orders[i])
RECURSIVE shift_up(_, _, _)
shift_up(orders, i, idx) ==
    IF i > idx THEN shift_up(swap(orders, i - 1, i), i - 1, idx) ELSE orders

\* on_add, first half: the insertion into the side's array.
\* Returns the array and the live count after it.
insert(orders, orders_filled, new_order) ==
    LET side == new_order.side
        price == new_order.price
        end == orders_filled
        it == lower_bound(orders, 0, orders_filled, price, side)
    IN IF it = end
       THEN [orders |-> [orders EXCEPT ![orders_filled] = new_order],
             orders_filled |-> orders_filled + 1]
       ELSE LET idx == IF side = "Ask" THEN walk_ask(orders, it, price)
                       ELSE walk_bid(orders, it, price)
                shifted == shift_up(orders, orders_filled + 1, idx)
            IN [orders |-> [shifted EXCEPT ![idx] = new_order],
                orders_filled |-> orders_filled + 1]

\* on_add, second half, Side::Ask: the best-quote update.  ok is FALSE when
\* an assert of the branch taken fails.
quote_on_add_ask(q, orders, orders_filled, price, quantity) ==
    IF is_empty(q)
    THEN [q |-> [price |-> price, quantity |-> quantity], ok |-> is_empty_assert(q)]
    ELSE IF q.price = price
    THEN [q |-> [q EXCEPT !.quantity = q.quantity + quantity],
          ok |-> is_empty_assert(q) /\ orders[orders_filled - 1].price = price]
    ELSE IF q.price > price
    THEN [q |-> [price |-> price, quantity |-> quantity], ok |-> is_empty_assert(q)]
    ELSE [q |-> q, ok |-> is_empty_assert(q)]

\* on_add, second half, Side::Bid (the assert of the equal-price branch is
\* commented out in the source)
quote_on_add_bid(q, price, quantity) ==
    IF is_empty(q)
    THEN [q |-> [price |-> price, quantity |-> quantity], ok |-> is_empty_assert(q)]
    ELSE IF q.price = price
    THEN [q |-> [q EXCEPT !.quantity = q.quantity + quantity], ok |-> is_empty_assert(q)]
    ELSE IF q.price < price
    THEN [q |-> [price |-> price, quantity |-> quantity], ok |-> is_empty_assert(q)]
    ELSE [q |-> q, ok |-> is_empty_assert(q)]

\* OrderBook::on_add(order_id, side, price, quantity) applied to book b.
\* Returns the book after the call, and ok: whether every assert the call
\* evaluated held.
on_add(b, order_id, side, price, quantity) ==
    LET new_order == [id |-> order_id, side |-> side, price |-> price,
                      quantity |-> quantity]
    IN IF side = "Ask"
       THEN LET ins == insert(b.orders_ask_, b.orders_filled_ask_, new_order)
                upd == quote_on_add_ask(b.best_quote_ask_, ins.orders,
                                        ins.orders_filled, price, quantity)
            IN [ob |-> [b EXCEPT !.orders_ask_ = ins.orders,
                                 !.orders_filled_ask_ = ins.orders_filled,
                                 !.best_quote_ask_ = upd.q],
                ok |-> upd.ok]
       ELSE LET ins == insert(b.orders_bid_, b.orders_filled_bid_, new_order)
                upd == quote_on_add_bid(b.best_quote_bid_, price, quantity)
            IN [ob |-> [b EXCEPT !.orders_bid_ = ins.orders,
                                 !.orders_filled_bid_ = ins.orders_filled,
                                 !.best_quote_bid_ = upd.q],
                ok |-> upd.ok]

\* find_order_by_id: one of its two scans, for(i = 0; i < orders_filled; ++i)
\* if(orders[i].id == order_id) { idx = i; break; }
RECURSIVE scan_for_id(_, _, _, _)
scan_for_id(orders, orders_filled, i, order_id) ==
    IF i >= orders_filled THEN invalid_idx
    ELSE IF orders[i].id = order_id THEN i
    ELSE scan_for_id(orders, orders_filled, i + 1, order_id)

\* OrderBook::find_order_by_id: the ask side first, the bid side when the
\* ask side does not hold the id.  found is the final assert.
find_order_by_id(b, order_id) ==
    LET idx_ask == scan_for_id(b.orders_ask_, b.orders_filled_ask_, 0, order_id)
        is_ask == idx_ask # invalid_idx
        idx == IF is_ask THEN idx_ask
               ELSE scan_for_id(b.orders_bid_, b.orders_filled_bid_, 0, order_id)
    IN [is_ask |-> is_ask, idx |-> idx, found |-> idx # invalid_idx]

\* cancel_order_by_idx: for(i = orders_filled - 1; orders[i].price ==
\* best_quote.price; ++i) best_quote.quantity += orders[i].quantity
RECURSIVE sum_block(_, _, _, _)
sum_block(orders, i, price, acc) ==
    IF OrderAt(orders, i).price = price
    THEN sum_block(orders, i + 1, price, acc + OrderAt(orders, i).quantity)
    ELSE acc

\* cancel_order_by_idx: the best-quote update, made after --orders_filled
\* and before the removed slot is shifted out
quote_on_cancel(q, orders, orders_filled, order) ==
    IF q.price = order.price
    THEN IF q.quantity = order.quantity
         THEN IF orders_filled = 0
              THEN clear(q)
              ELSE [price |-> orders[orders_filled - 1].price,
                    quantity |-> sum_block(orders, orders_filled - 1,
                                           orders[orders_filled - 1].price, 0)]
         ELSE [q EXCEPT !.quantity = q.quantity - order.quantity]
    ELSE q

\* shift_down with if written for the for: a single swap
shift_down_once(orders, i, orders_filled) ==
    IF i < orders_filled THEN swap(orders, i, i + 1) ELSE orders

\* cancel_order_by_idx: for(i = idx; i < orders_filled; ++i) swap(orders[i], orders[i + 1])
RECURSIVE shift_down(_, _, _)
shift_down(orders, i, orders_filled) ==
    IF i < orders_filled
    THEN shift_down(swap(orders, i, i + 1), i + 1, orders_filled)
    ELSE orders

\* OrderBook::cancel_order_by_idx(idx, is_ask) applied to book b
cancel_order_by_idx(b, idx, is_ask) ==
    LET orders == IF is_ask THEN b.orders_ask_ ELSE b.orders_bid_
        order == orders[idx]
        orders_filled == (IF is_ask THEN b.orders_filled_ask_
                          ELSE b.orders_filled_bid_) - 1
        best_quote == quote_on_cancel(IF is_ask THEN b.best_quote_ask_
                                      ELSE b.best_quote_bid_,
                                      orders, orders_filled, order)
        shifted == shift_down(orders, idx, orders_filled)
    IN IF is_ask
       THEN [b EXCEPT !.orders_ask_ = shifted,
                      !.orders_filled_ask_ = orders_filled,
                      !.best_quote_ask_ = best_quote]
       ELSE [b EXCEPT !.orders_bid_ = shifted,
                      !.orders_filled_bid_ = orders_filled,
                      !.best_quote_bid_ = best_quote]

\* OrderBook::on_cancel(order_id) applied to book b, order_id live
on_cancel(b, order_id) ==
    LET f == find_order_by_id(b, order_id)
    IN cancel_order_by_idx(b, f.idx, f.is_ask)

\* on_modify: while(idx_block_start > 1 && orders[idx_block_start - 1].price
\* == price) { swap(orders[idx_block_start-1], orders[idx_block_start]);
\* --idx_block_start; }
RECURSIVE move_to_block_start(_, _, _)
move_to_block_start(orders, idx_block_start, price) ==
    IF idx_block_start > 1 /\ orders[idx_block_start - 1].price = price
    THEN move_to_block_start(swap(orders, idx_block_start - 1, idx_block_start),
                             idx_block_start - 1, price)
    ELSE [orders |-> orders, idx_block_start |-> idx_block_start]

\* in_place with < written for <=
in_place_strict(new_quantity, old_quantity) == new_quantity < old_quantity

\* on_modify: if(new_quantity <= order.quantity), the branch that edits the
\* quantity in place
in_place(new_quantity, old_quantity) == new_quantity <= old_quantity

\* on_modify with best_quote.quantity += new_quantity written for
\* best_quote.quantity += new_quantity - old_quantity
on_modify_absolute(b, order_id, new_quantity) ==
    LET f == find_order_by_id(b, order_id)
        orders == IF f.is_ask THEN b.orders_ask_ ELSE b.orders_bid_
        old_quantity == orders[f.idx].quantity
        best_quote == IF f.is_ask THEN b.best_quote_ask_ ELSE b.best_quote_bid_
        moved == move_to_block_start(orders, f.idx, orders[f.idx].price)
        orders1 == IF in_place(new_quantity, old_quantity)
                   THEN [orders EXCEPT ![f.idx].quantity = new_quantity]
                   ELSE [moved.orders EXCEPT
                           ![moved.idx_block_start].quantity = new_quantity]
        best_quote1 == IF best_quote.price = orders1[f.idx].price
                       THEN [best_quote EXCEPT !.quantity = @ + new_quantity]
                       ELSE best_quote
    IN IF f.is_ask
       THEN [b EXCEPT !.orders_ask_ = orders1, !.best_quote_ask_ = best_quote1]
       ELSE [b EXCEPT !.orders_bid_ = orders1, !.best_quote_bid_ = best_quote1]

\* OrderBook::on_modify(order_id, new_quantity) applied to book b, order_id live
on_modify(b, order_id, new_quantity) ==
    LET f == find_order_by_id(b, order_id)
        orders == IF f.is_ask THEN b.orders_ask_ ELSE b.orders_bid_
        old_quantity == orders[f.idx].quantity
        best_quote == IF f.is_ask THEN b.best_quote_ask_ ELSE b.best_quote_bid_
        moved == move_to_block_start(orders, f.idx, orders[f.idx].price)
        orders1 == IF in_place(new_quantity, old_quantity)
                   THEN [orders EXCEPT ![f.idx].quantity = new_quantity]
                   ELSE [moved.orders EXCEPT
                           ![moved.idx_block_start].quantity = new_quantity]
        best_quote1 == IF best_quote.price = orders1[f.idx].price
                       THEN [best_quote EXCEPT
                               !.quantity = @ + new_quantity - old_quantity]
                       ELSE best_quote
    IN IF f.is_ask
       THEN [b EXCEPT !.orders_ask_ = orders1, !.best_quote_ask_ = best_quote1]
       ELSE [b EXCEPT !.orders_bid_ = orders1, !.best_quote_bid_ = best_quote1]

\* exhausts with >= written for ==
exhausts_any(order_quantity, trade_quantity) == order_quantity >= trade_quantity

\* exhausts with < written for ==
exhausts_none(order_quantity, trade_quantity) == order_quantity < trade_quantity

\* on_trade: if(order.quantity == trade_quantity), the branch that removes
\* the order
exhausts(order_quantity, trade_quantity) == order_quantity = trade_quantity

\* OrderBook::on_trade(order_id, trade_quantity) applied to book b, order_id
\* live and trade_quantity <= its quantity
on_trade(b, order_id, trade_quantity) ==
    LET f == find_order_by_id(b, order_id)
        orders == IF f.is_ask THEN b.orders_ask_ ELSE b.orders_bid_
        order == orders[f.idx]
        best_quote == IF f.is_ask THEN b.best_quote_ask_ ELSE b.best_quote_bid_
        orders1 == [orders EXCEPT ![f.idx].quantity = @ - trade_quantity]
        best_quote1 == IF order.price = best_quote.price
                       THEN [best_quote EXCEPT !.quantity = @ - trade_quantity]
                       ELSE best_quote
    IN IF exhausts(order.quantity, trade_quantity)
       THEN cancel_order_by_idx(b, f.idx, f.is_ask)
       ELSE IF f.is_ask
       THEN [b EXCEPT !.orders_ask_ = orders1, !.best_quote_ask_ = best_quote1]
       ELSE [b EXCEPT !.orders_bid_ = orders1, !.best_quote_bid_ = best_quote1]

\* OrderBook::best_ask / best_bid: std::nullopt when the quote is_empty(),
\* the quote otherwise
best_of(q) == IF is_empty(q) THEN "nullopt" ELSE "quote"

best_ask == best_of(best_quote_ask_)

best_bid == best_of(best_quote_bid_)

\* orders_bid_[invalid_idx - j], which the release build evaluates when
\* find_order_by_id has found no order (its asserts are compiled out): the
\* index wraps around to the j+1-th slot in front of orders_bid_[0], and the
\* member declared in front of orders_bid_ is orders_ask_
slot_before_bid(b, j) == OrderAt(b.orders_ask_, max_number_live_orders - 1 - j)

\* cancel_order_by_idx(invalid_idx, false) in the release build: order is
\* orders_bid_[invalid_idx], and the closing loop for(i = idx; i <
\* orders_filled; ++i) does not run
cancel_not_live(b) ==
    LET order == slot_before_bid(b, 0)
        orders_filled == b.orders_filled_bid_ - 1
    IN [b EXCEPT !.orders_filled_bid_ = orders_filled,
                 !.best_quote_bid_ = quote_on_cancel(b.best_quote_bid_, b.orders_bid_,
                                                     orders_filled, order)]

\* on_modify with idx = invalid_idx: while(idx_block_start > 1 &&
\* orders[idx_block_start - 1].price == price) --idx_block_start, counted in
\* slots j in front of orders_bid_[0]; the slots it swaps are all in their
\* default-constructed state
RECURSIVE move_before_bid(_, _, _)
move_before_bid(b, j, price) ==
    IF j + 1 < max_number_live_orders /\ slot_before_bid(b, j + 1).price = price
    THEN move_before_bid(b, j + 1, price)
    ELSE j

\* orders_bid_[invalid_idx - j].quantity = quantity
write_before_bid(b, j, quantity) ==
    IF (max_number_live_orders - 1 - j) \in DOMAIN b.orders_ask_
    THEN [b EXCEPT !.orders_ask_[max_number_live_orders - 1 - j].quantity = quantity]
    ELSE b

\* OrderBook::on_modify(order_id, new_quantity) in the release build when
\* order_id is not live
modify_not_live(b, new_quantity) ==
    LET order == slot_before_bid(b, 0)
        old_quantity == order.quantity
        j == IF in_place(new_quantity, old_quantity) THEN 0
             ELSE move_before_bid(b, 0, order.price)
        b1 == write_before_bid(b, j, new_quantity)
    IN IF b.best_quote_bid_.price = slot_before_bid(b1, 0).price
       THEN [b1 EXCEPT !.best_quote_bid_.quantity = @ + new_quantity - old_quantity]
       ELSE b1

\* OrderBook::on_trade(order_id, trade_quantity) in the release build when
\* order_id is not live
trade_not_live(b, trade_quantity) ==
    LET order == slot_before_bid(b, 0)
        b1 == write_before_bid(b, 0, order.quantity - trade_quantity)
    IN IF exhausts(order.quantity, trade_quantity)
       THEN cancel_not_live(b)
       ELSE IF order.price = b.best_quote_bid_.price
       THEN [b1 EXCEPT !.best_quote_bid_.quantity = @ - trade_quantity]
       ELSE b1

\* OrderBook::depth_at(side, price): assert(false && "Not Implemented"), then
\* return 0.  ok is the assert: the default build aborts in every call, the
\* release build returns value.
depth_at(b, side, price) == [ok |-> FALSE, value |-> 0]

\* ------------------------------------------------------------ the machine
NoCall == [op |-> "none", id |-> missing_id, side |-> "Bid",
           price |-> missing_price, quantity |-> missing_quantity]

Live(b, order_id) == find_order_by_id(b, order_id).found

\* the live orders of both sides in index order: what a caller can observe
\* of the two arrays (the live counts are the lengths)
LiveOrders(b) ==
    [ask |-> [i \in 0 .. (b.orders_filled_ask_ - 1) |-> b.orders_ask_[i]],
     bid |-> [i \in 0 .. (b.orders_filled_bid_ - 1) |-> b.orders_bid_[i]]]

\* the quantity a live order rests with
resting_quantity(b, order_id) ==
    LET f == find_order_by_id(b, order_id)
    IN (IF f.is_ask THEN b.orders_ask_ ELSE b.orders_bid_)[f.idx].quantity

\* pre_add when the last two calls were not an on_add and the on_cancel of
\* the order it added
NoPreAdd == [set |-> FALSE, live |-> [ask |-> <<>>, bid |-> <<>>]]

\* the members of the OrderBook written back from a book value
Store(b) ==
    /\ orders_ask_' = b.orders_ask_
    /\ orders_bid_' = b.orders_bid_
    /\ orders_filled_bid_' = b.orders_filled_bid_
    /\ orders_filled_ask_' = b.orders_filled_ask_
    /\ best_quote_ask_' = b.best_quote_ask_
    /\ best_quote_bid_' = b.best_quote_bid_

Init ==
    /\ orders_ask_ = [i \in Slots |-> DefaultOrder]
    /\ orders_bid_ = [i \in Slots |-> DefaultOrder]
    /\ orders_filled_bid_ = 0
    /\ orders_filled_ask_ = 0
    /\ best_quote_ask_ = EmptyQuote
    /\ best_quote_bid_ = EmptyQuote
    /\ assert_failed = FALSE
    /\ last = NoCall
    /\ n_added = 0
    /\ pre_add = NoPreAdd
    /\ net_quantity = 0
    /\ outcome = "returned"

OnAdd ==
    \E order_id \in Ids, side \in {"Bid", "Ask"}, price \in Prices,
       quantity \in Quantities :
        /\ outcome = "returned"
        /\ order_id = n_added
        /\ ~Live(Book, order_id)
        /\ (IF side = "Ask" THEN orders_filled_ask_ ELSE orders_filled_bid_)
               < max_number_live_orders
        /\ LET r == on_add(Book, order_id, side, price, quantity)
           IN /\ Store(r.ob)
              /\ assert_failed' = (assert_failed \/ ~r.ok)
        /\ last' = [op |-> "add", id |-> order_id, side |-> side,
                    price |-> price, quantity |-> quantity]
        /\ n_added' = n_added + 1
        /\ pre_add' = [set |-> TRUE, live |-> LiveOrders(Book)]
        /\ net_quantity' = net_quantity + quantity
        /\ UNCHANGED outcome

OnCancel ==
    \E order_id \in Ids :
        /\ outcome = "returned"
        /\ Live(Book, order_id)
        /\ Store(on_cancel(Book, order_id))
        /\ last' = [NoCall EXCEPT !.op = "cancel", !.id = order_id]
        /\ pre_add' = IF last.op = "add" /\ last.id = order_id
                       THEN pre_add ELSE NoPreAdd
        /\ net_quantity' = net_quantity - resting_quantity(Book, order_id)
        /\ UNCHANGED <<assert_failed, n_added, outcome>>

OnModify ==
    \E order_id \in Ids, new_quantity \in Quantities :
        /\ outcome = "returned"
        /\ Live(Book, order_id)
        /\ Store(on_modify(Book, order_id, new_quantity))
        /\ last' = [NoCall EXCEPT !.op = "modify", !.id = order_id,
                                  !.quantity = new_quantity]
        /\ pre_add' = NoPreAdd
        /\ net_quantity' = net_quantity + new_quantity
                                - resting_quantity(Book, order_id)
        /\ UNCHANGED <<assert_failed, n_added, outcome>>

OnTrade ==
    \E order_id \in Ids, trade_quantity \in Quantities :
        /\ outcome = "returned"
        /\ Live(Book, order_id)
        /\ LET f == find_order_by_id(Book, order_id)
               orders == IF f.is_ask THEN orders_ask_ ELSE orders_bid_
           IN trade_quantity <= orders[f.idx].quantity
        /\ Store(on_trade(Book, order_id, trade_quantity))
        /\ last' = [NoCall EXCEPT !.op = "trade", !.id = order_id,
                                  !.quantity = trade_quantity]
        /\ pre_add' = NoPreAdd
        /\ net_quantity' = net_quantity - trade_quantity
        /\ UNCHANGED <<assert_failed, n_added, outcome>>

Next == OnAdd \/ OnCancel \/ OnModify \/ OnTrade

Spec == Init /\ [][Next]_vars

\* ------------------------------------------- calls outside the contract
\* The actions below are the calls spec 4.3 lists as precondition
\* violations, each made in a state that calls within the contract have
\* reached.  outcome is "aborted" when the call has aborted the process and
\* "unchecked" when it has returned; no call is modelled after either.

\* the two build modes of compile.sh: asserts compiled in, or out (-DNDEBUG)
Builds == {"debug", "release"}

\* quantities that are not positive
NonPositive == {-1, 0}

\* the call has aborted: no member is written
Abort ==
    /\ outcome' = "aborted"
    /\ UNCHANGED <<orders_ask_, orders_bid_, orders_filled_bid_,
                   orders_filled_ask_, best_quote_ask_, best_quote_bid_>>

\* the call has returned with the book ob
Return(ob) == outcome' = "unchecked" /\ Store(ob)

\* on_cancel(order_id), order_id not live: the last assert of
\* find_order_by_id fails.  The release outcome is modelled when a bid is
\* live (with none, --orders_filled wraps around).
OnCancelNotLive ==
    \E order_id \in Ids, build \in Builds :
        /\ outcome = "returned"
        /\ ~Live(Book, order_id)
        /\ IF build = "debug"
           THEN ~assert_failed /\ Abort
           ELSE orders_filled_bid_ > 0 /\ Return(cancel_not_live(Book))
        /\ last' = [NoCall EXCEPT !.op = "cancel", !.id = order_id]
        /\ assert_failed' = TRUE
        /\ pre_add' = NoPreAdd
        /\ UNCHANGED <<n_added, net_quantity>>

\* on_modify(order_id, new_quantity), order_id not live.  The release
\* outcome is modelled when orders_ask_[0] has been written, so that the
\* walk over the slots in front of orders_bid_ ends inside the object.
OnModifyNotLive ==
    \E order_id \in Ids, new_quantity \in Quantities, build \in Builds :
        /\ outcome = "returned"
        /\ ~Live(Book, order_id)
        /\ IF build = "debug"
           THEN ~assert_failed /\ Abort
           ELSE /\ orders_ask_[0].price # missing_price
                /\ Return(modify_not_live(Book, new_quantity))
        /\ last' = [NoCall EXCEPT !.op = "modify", !.id = order_id,
                                  !.quantity = new_quantity]
        /\ assert_failed' = TRUE
        /\ pre_add' = NoPreAdd
        /\ UNCHANGED <<n_added, net_quantity>>

\* on_trade(order_id, trade_quantity), order_id not live
OnTradeNotLive ==
    \E order_id \in Ids, trade_quantity \in Quantities, build \in Builds :
        /\ outcome = "returned"
        /\ ~Live(Book, order_id)
        /\ IF build = "debug"
           THEN ~assert_failed /\ Abort
           ELSE Return(trade_not_live(Book, trade_quantity))
        /\ last' = [NoCall EXCEPT !.op = "trade", !.id = order_id,
                                  !.quantity = trade_quantity]
        /\ assert_failed' = TRUE
        /\ pre_add' = NoPreAdd
        /\ UNCHANGED <<n_added, net_quantity>>

\* on_add(order_id, side, price, quantity), order_id live: on_add has no
\* check, in either build
OnAddLiveId ==
    \E order_id \in Ids, side \in {"Bid", "Ask"}, price \in Prices,
       quantity \in Quantities :
        /\ outcome = "returned"
        /\ Live(Book, order_id)
        /\ (IF side = "Ask" THEN orders_filled_ask_ ELSE orders_filled_bid_) < MaxId
        /\ LET r == on_add(Book, order_id, side, price, quantity)
           IN /\ Return(r.ob)
              /\ assert_failed' = (assert_failed \/ ~r.ok)
        /\ last' = [op |-> "add", id |-> order_id, side |-> side,
                    price |-> price, quantity |-> quantity]
        /\ pre_add' = NoPreAdd
        /\ UNCHANGED <<n_added, net_quantity>>

\* on_add(order_id, side, price, quantity), quantity <= 0: no check either
OnAddNonPositive ==
    \E order_id \in Ids, side \in {"Bid", "Ask"}, price \in Prices,
       quantity \in NonPositive :
        /\ outcome = "returned"
        /\ order_id = n_added
        /\ LET r == on_add(Book, order_id, side, price, quantity)
           IN /\ Return(r.ob)
              /\ assert_failed' = (assert_failed \/ ~r.ok)
        /\ last' = [op |-> "add", id |-> order_id, side |-> side,
                    price |-> price, quantity |-> quantity]
        /\ n_added' = n_added + 1
        /\ pre_add' = NoPreAdd
        /\ UNCHANGED net_quantity

\* on_modify(order_id, new_quantity), order_id live, new_quantity <= 0
OnModifyNonPositive ==
    \E order_id \in Ids, new_quantity \in NonPositive :
        /\ outcome = "returned"
        /\ Live(Book, order_id)
        /\ Return(on_modify(Book, order_id, new_quantity))
        /\ last' = [NoCall EXCEPT !.op = "modify", !.id = order_id,
                                  !.quantity = new_quantity]
        /\ pre_add' = NoPreAdd
        /\ UNCHANGED <<assert_failed, n_added, net_quantity>>

\* on_trade(order_id, trade_quantity), order_id live, trade_quantity <= 0:
\* assert(order.quantity >= trade_quantity) holds
OnTradeNonPositive ==
    \E order_id \in Ids, trade_quantity \in NonPositive :
        /\ outcome = "returned"
        /\ Live(Book, order_id)
        /\ Return(on_trade(Book, order_id, trade_quantity))
        /\ last' = [NoCall EXCEPT !.op = "trade", !.id = order_id,
                                  !.quantity = trade_quantity]
        /\ pre_add' = NoPreAdd
        /\ UNCHANGED <<assert_failed, n_added, net_quantity>>

\* on_trade(order_id, trade_quantity), order_id live, trade_quantity above
\* the resting quantity: assert(order.quantity >= trade_quantity) fails
OnTradeOverfill ==
    \E order_id \in Ids, trade_quantity \in 1 .. (MaxQty + 1), build \in Builds :
        /\ outcome = "returned"
        /\ Live(Book, order_id)
        /\ trade_quantity > resting_quantity(Book, order_id)
        /\ IF build = "debug"
           THEN ~assert_failed /\ Abort
           ELSE Return(on_trade(Book, order_id, trade_quantity))
        /\ last' = [NoCall EXCEPT !.op = "trade", !.id = order_id,
                                  !.quantity = trade_quantity]
        /\ assert_failed' = TRUE
        /\ pre_add' = NoPreAdd
        /\ UNCHANGED <<n_added, net_quantity>>

NextAnyCall ==
    \/ Next
    \/ OnCancelNotLive \/ OnModifyNotLive \/ OnTradeNotLive
    \/ OnAddLiveId
    \/ OnAddNonPositive \/ OnModifyNonPositive \/ OnTradeNonPositive
    \/ OnTradeOverfill

SpecAnyCall == Init /\ [][NextAnyCall]_vars

\* ------------------------------------------------- the end of the arrays
\* The runs below fill the ask side up to its last slots, so the two arrays
\* are modelled with all their max_number_live_orders slots.  One bid is
\* added first; then asks are added at falling prices, each of which
\* on_add appends behind the live prefix.  on_add is then called for an
\* ask that it inserts by shifting, as the 100th order or on the full side.

\* the number of on_add calls of a run
MaxArrayAdds == max_number_live_orders + 2

\* the indices of a std::array<Order, max_number_live_orders>
ArraySlots == 0 .. (max_number_live_orders - 1)

InitArrays ==
    /\ orders_ask_ = [i \in ArraySlots |-> DefaultOrder]
    /\ orders_bid_ = [i \in ArraySlots |-> DefaultOrder]
    /\ orders_filled_bid_ = 0
    /\ orders_filled_ask_ = 0
    /\ best_quote_ask_ = EmptyQuote
    /\ best_quote_bid_ = EmptyQuote
    /\ assert_failed = FALSE
    /\ last = NoCall
    /\ n_added = 0
    /\ pre_add = NoPreAdd
    /\ net_quantity = 0
    /\ outcome = "returned"

\* orders_ask_[i] for i up to 2 * max_number_live_orders - 1: past the last
\* slot of orders_ask_ lies the member declared behind it, orders_bid_
ask_memory(b) ==
    [i \in 0 .. (2 * max_number_live_orders - 1) |->
        IF i < max_number_live_orders THEN b.orders_ask_[i]
        ELSE b.orders_bid_[i - max_number_live_orders]]

\* the highest index on_add(.., Side::Ask, price, ..) reads or writes:
\* orders[orders_filled] when it appends, orders[orders_filled + 1] in the
\* first swap when it shifts
highest_index(b, price) ==
    IF lower_bound(b.orders_ask_, 0, b.orders_filled_ask_, price, "Ask")
           = b.orders_filled_ask_
    THEN b.orders_filled_ask_
    ELSE b.orders_filled_ask_ + 1

\* OrderBook::on_add(order_id, Side::Ask, price, quantity) with the slots
\* past the end of orders_ask_ taken from, and written to, orders_bid_
on_add_ask_past_end(b, order_id, price, quantity) ==
    LET new_order == [id |-> order_id, side |-> "Ask", price |-> price,
                      quantity |-> quantity]
        ins == insert(ask_memory(b), b.orders_filled_ask_, new_order)
        upd == quote_on_add_ask(b.best_quote_ask_, ins.orders,
                                ins.orders_filled, price, quantity)
    IN [ob |-> [b EXCEPT
                  !.orders_ask_ = [i \in ArraySlots |-> ins.orders[i]],
                  !.orders_bid_ = [i \in ArraySlots |->
                                     ins.orders[i + max_number_live_orders]],
                  !.orders_filled_ask_ = ins.orders_filled,
                  !.best_quote_ask_ = upd.q],
        ok |-> upd.ok]

\* on_add(0, Side::Bid, price, quantity) on the empty book
OnAddFirstBid ==
    \E price \in Prices, quantity \in Quantities :
        /\ outcome = "returned"
        /\ n_added = 0
        /\ LET r == on_add(Book, 0, "Bid", price, quantity)
           IN /\ Store(r.ob)
              /\ assert_failed' = (assert_failed \/ ~r.ok)
        /\ last' = [op |-> "add", id |-> 0, side |-> "Bid",
                    price |-> price, quantity |-> quantity]
        /\ n_added' = n_added + 1
        /\ pre_add' = [set |-> TRUE, live |-> LiveOrders(Book)]
        /\ net_quantity' = net_quantity + quantity
        /\ UNCHANGED outcome

\* on_add of an ask priced below every resting ask, while the side has a
\* free slot: lower_bound returns end and the order is appended
OnAddAskBelow ==
    \E quantity \in Quantities :
        /\ outcome = "returned"
        /\ n_added > 0 /\ n_added < MaxArrayAdds
        /\ orders_filled_ask_ < max_number_live_orders
        /\ quantity = 1 \/ orders_filled_ask_ = max_number_live_orders - 2
        /\ LET price == max_number_live_orders + 1 - orders_filled_ask_
               r == on_add(Book, n_added, "Ask", price, quantity)
           IN /\ highest_index(Book, price) = orders_filled_ask_
              /\ Store(r.ob)
              /\ assert_failed' = (assert_failed \/ ~r.ok)
              /\ last' = [op |-> "add", id |-> n_added, side |-> "Ask",
                          price |-> price, quantity |-> quantity]
        /\ n_added' = n_added + 1
        /\ pre_add' = [set |-> TRUE, live |-> LiveOrders(Book)]
        /\ net_quantity' = net_quantity + quantity
        /\ UNCHANGED outcome

\* on_add of an ask at the price of the best resting ask or one above, as
\* the 100th live ask (within capacity) or on the full side (outside the
\* contract): on_add shifts, and its first swap is std::swap(orders[99],
\* orders[100]) or std::swap(orders[100], orders[101]).  An index past the
\* end is undefined behaviour: a build that checks array bounds aborts,
\* any other build reaches into orders_bid_.
OnAddAskShifting ==
    \E quantity \in Quantities, up \in {0, 1}, checked \in BOOLEAN :
        /\ outcome = "returned"
        /\ n_added < MaxArrayAdds
        /\ orders_filled_ask_ >= max_number_live_orders - 1
        /\ LET price == best_quote_ask_.price + up
               r == on_add_ask_past_end(Book, n_added, price, quantity)
           IN /\ highest_index(Book, price) >= max_number_live_orders
              /\ IF checked
                 THEN Abort /\ UNCHANGED assert_failed
                 ELSE /\ Store(r.ob)
                      /\ assert_failed' = (assert_failed \/ ~r.ok)
                      /\ outcome' = IF orders_filled_ask_ < max_number_live_orders
                                    THEN "returned" ELSE "unchecked"
              /\ last' = [op |-> "add", id |-> n_added, side |-> "Ask",
                          price |-> price, quantity |-> quantity]
        /\ n_added' = n_added + 1
        /\ pre_add' = [set |-> TRUE, live |-> LiveOrders(Book)]
        /\ net_quantity' = net_quantity + quantity

\* on_cancel of the order the last call has added as the 100th live ask
OnCancelLastAdded ==
    /\ outcome = "returned"
    /\ last.op = "add"
    /\ orders_filled_ask_ = max_number_live_orders
    /\ Live(Book, last.id)
    /\ Store(on_cancel(Book, last.id))
    /\ last' = [NoCall EXCEPT !.op = "cancel", !.id = last.id]
    /\ pre_add' = pre_add
    /\ net_quantity' = net_quantity - resting_quantity(Book, last.id)
    /\ UNCHANGED <<assert_failed, n_added, outcome>>

NextArrays == OnAddFirstBid \/ OnAddAskBelow \/ OnAddAskShifting \/ OnCancelLastAdded

SpecArrays == InitArrays /\ [][NextArrays]_vars

\* ------------------------------------------------- one more on_add
\* Spec ends with the MaxId-th on_add.  The runs below are made of on_add
\* and on_cancel alone and go one on_add further (ids 0 .. MaxId), so that
\* an order is added after three orders have rested and been cancelled.  A
\* side takes an on_add while it holds fewer than MaxId orders: the slots
\* on_add touches are then within Slots.

\* the ids of MaxId + 1 orders
MoreIds == 0 .. MaxId

OnAddOneMore ==
    \E order_id \in MoreIds, side \in {"Bid", "Ask"}, price \in Prices,
       quantity \in Quantities :
        /\ outcome = "returned"
        /\ order_id = n_added
        /\ ~Live(Book, order_id)
        /\ (IF side = "Ask" THEN orders_filled_ask_ ELSE orders_filled_bid_) < MaxId
        /\ LET r == on_add(Book, order_id, side, price, quantity)
           IN /\ Store(r.ob)
              /\ assert_failed' = (assert_failed \/ ~r.ok)
        /\ last' = [op |-> "add", id |-> order_id, side |-> side,
                    price |-> price, quantity |-> quantity]
        /\ n_added' = n_added + 1
        /\ pre_add' = [set |-> TRUE, live |-> LiveOrders(Book)]
        /\ net_quantity' = net_quantity + quantity
        /\ UNCHANGED outcome

OnCancelOneMore ==
    \E order_id \in MoreIds :
        /\ outcome = "returned"
        /\ Live(Book, order_id)
        /\ Store(on_cancel(Book, order_id))
        /\ last' = [NoCall EXCEPT !.op = "cancel", !.id = order_id]
        /\ pre_add' = IF last.op = "add" /\ last.id = order_id
                       THEN pre_add ELSE NoPreAdd
        /\ net_quantity' = net_quantity - resting_quantity(Book, order_id)
        /\ UNCHANGED <<assert_failed, n_added, outcome>>

NextAddCancel == OnAddOneMore \/ OnCancelOneMore

SpecAddCancel == Init /\ [][NextAddCancel]_vars

\* ------------------------------------------------------------ properties
\* the live prefix of a side: indices 0 .. orders_filled - 1
LiveIdx(orders_filled) == 0 .. (orders_filled - 1)

LivePrefix(orders, orders_filled) == [i \in LiveIdx(orders_filled) |-> orders[i]]

\* the sum of the quantities of the live orders resting at price
RECURSIVE QuantityAt(_, _, _)
QuantityAt(orders, orders_filled, price) ==
    IF orders_filled = 0 THEN 0
    ELSE QuantityAt(orders, orders_filled - 1, price)
         + (IF orders[orders_filled - 1].price = price
            THEN orders[orders_filled - 1].quantity ELSE 0)

\* the best price among the live orders: lowest ask, highest bid
BestPrice(orders, orders_filled, side) ==
    LET ps == {orders[i].price : i \in LiveIdx(orders_filled)}
    IN CHOOSE p \in ps : \A r \in ps : IF side = "Ask" THEN p <= r ELSE p >= r

\* the quote recomputed from scratch from the live prefix
Recomputed(orders, orders_filled, side) ==
    IF orders_filled = 0 THEN EmptyQuote
    ELSE [price |-> BestPrice(orders, orders_filled, side),
          quantity |-> QuantityAt(orders, orders_filled,
                                  BestPrice(orders, orders_filled, side))]

\* C1: in every reachable state the incrementally maintained best quote of
\* each side equals the quote recomputed from scratch from the side's live
\* prefix (empty when no order is live, else the best price and the sum of
\* the quantities of the live orders at that price).
C1_QuoteEqualsRecomputed ==
    /\ best_quote_ask_ = Recomputed(orders_ask_, orders_filled_ask_, "Ask")
    /\ best_quote_bid_ = Recomputed(orders_bid_, orders_filled_bid_, "Bid")

\* C2: in every reachable state the bid side's live prefix is sorted by
\* non-decreasing price.
C2_BidSorted ==
    \A i, j \in LiveIdx(orders_filled_bid_) :
        i < j => orders_bid_[i].price <= orders_bid_[j].price

\* C3: in every reachable state the ask side's live prefix is sorted by
\* non-increasing price, so that the lowest ask is the last live slot.
C3_AskSorted ==
    \A i, j \in LiveIdx(orders_filled_ask_) :
        i < j => orders_ask_[i].price >= orders_ask_[j].price

\* C3 witness: an on_add has just put an ask between a higher-priced and a
\* lower-priced resting ask
C3_Witness ==
    /\ last.op = "add" /\ last.side = "Ask"
    /\ orders_filled_ask_ = 3
    /\ orders_ask_[1].id = last.id
    /\ orders_ask_[0].price > orders_ask_[2].price

\* C4: best_bid() (best_ask()) returns the empty result exactly when the bid
\* (ask) side has zero live orders.
C4_EmptyIffNoLiveOrder ==
    /\ (best_ask = "nullopt") <=> (orders_filled_ask_ = 0)
    /\ (best_bid = "nullopt") <=> (orders_filled_bid_ = 0)

\* the side an order_id rests on, its index, and the side's array and count
SideOf(b, order_id) == IF find_order_by_id(b, order_id).is_ask THEN "Ask" ELSE "Bid"

IdxOf(b, order_id) == find_order_by_id(b, order_id).idx

SideOrders(b, side) == IF side = "Ask" THEN b.orders_ask_ ELSE b.orders_bid_

SideFilled(b, side) ==
    IF side = "Ask" THEN b.orders_filled_ask_ ELSE b.orders_filled_bid_

Other(side) == IF side = "Ask" THEN "Bid" ELSE "Ask"

SideLive(b, side) == LivePrefix(SideOrders(b, side), SideFilled(b, side))

\* what a caller can observe of a book: live sequences, counts and quotes
View(b) == [ask |-> SideLive(b, "Ask"), bid |-> SideLive(b, "Bid"),
            best_quote_ask_ |-> b.best_quote_ask_,
            best_quote_bid_ |-> b.best_quote_bid_]

\* the lowest index of the contiguous run of equal-price slots that holds idx
RECURSIVE BlockStart(_, _)
BlockStart(orders, idx) ==
    IF idx > 0 /\ orders[idx - 1].price = orders[idx].price
    THEN BlockStart(orders, idx - 1)
    ELSE idx

\* the step is the call on_add(last'.id, last'.side, last'.price,
\* last'.quantity), made within the contract, and the call has returned
AddStep == last'.op = "add" /\ n_added' = n_added + 1 /\ outcome' = "returned"

\* the step is the call op(last'.id, last'.quantity) on a live order, made
\* within the contract
CallStep(op) ==
    /\ last'.op = op /\ n_added' = n_added /\ Live(Book, last'.id)
    /\ outcome' = "returned"

\* the quantity of a live order before the step
OldQuantity(order_id) ==
    SideOrders(Book, SideOf(Book, order_id))[IdxOf(Book, order_id)].quantity

\* C5 as stated: after on_add of B at the price of an order A that rests on
\* the same side, B's slot has the higher index (B is nearer the best end).
C5_NewerNearerBestEnd ==
    [][AddStep =>
        \A i \in LiveIdx(SideFilled(Book, last'.side)) :
            SideOrders(Book, last'.side)[i].price = last'.price =>
                IdxOf(Book', last'.id)
                    > IdxOf(Book', SideOrders(Book, last'.side)[i].id)]_vars

\* C5 as amended: after on_add of B at the price of an order A that rests on
\* the same side, B's slot has the lower index (A, the earlier arrival, is
\* nearer the best end); on the ask side always, on the bid side whenever the
\* bid prefix is sorted when B is added.
C5_NewerFartherFromBestEnd ==
    [][AddStep /\ (last'.side = "Ask" \/ C2_BidSorted) =>
        \A i \in LiveIdx(SideFilled(Book, last'.side)) :
            SideOrders(Book, last'.side)[i].price = last'.price =>
                IdxOf(Book', last'.id)
                    < IdxOf(Book', SideOrders(Book, last'.side)[i].id)]_vars

\* C5 witness: an on_add has just been made at the price of an order that
\* was resting on that side, and the new order sits below it
C5_Witness ==
    /\ last.op = "add"
    /\ Live(Book, last.id)
    /\ \E i \in LiveIdx(SideFilled(Book, last.side)) :
          /\ SideOrders(Book, last.side)[i].id # last.id
          /\ SideOrders(Book, last.side)[i].price = last.price
          /\ i > IdxOf(Book, last.id)

\* C6: an on_add at a price that already rests on the side puts the new order
\* at the lowest index of the contiguous block of that price, and every order
\* of that price that was live sits exactly one index higher than before.
C6_InsertedAtBlockFront ==
    [][AddStep =>
        LET orders == SideOrders(Book, last'.side)
            after == SideOrders(Book', last'.side)
            block == {i \in LiveIdx(SideFilled(Book, last'.side)) :
                         orders[i].price = last'.price}
            idx == IdxOf(Book', last'.id)
        IN block # {} =>
             /\ \A i \in block : idx <= i
             /\ \E i \in block : idx = i
             /\ \A i \in block : after[i + 1] = orders[i]
             /\ BlockStart(after, idx + Cardinality(block)) = idx]_vars

\* C7: on_modify with a larger quantity moves the order to the lowest index of
\* its own price block and sets its quantity; the other orders keep their
\* relative order and no slot's price changes.
C7_IncreaseMovesToBlockFront ==
    [][CallStep("modify") /\ last'.quantity > OldQuantity(last'.id) =>
        LET side == SideOf(Book, last'.id)
            orders == SideOrders(Book, side)
            after == SideOrders(Book', side)
            idx == IdxOf(Book, last'.id)
            front == BlockStart(orders, idx)
        IN /\ IdxOf(Book', last'.id) = front
           /\ after[front].quantity = last'.quantity
           /\ \A i \in LiveIdx(SideFilled(Book, side)) :
                 /\ after[i].price = orders[i].price
                 /\ (i < front \/ i > idx) => after[i] = orders[i]
                 /\ (front <= i /\ i < idx) => after[i + 1] = orders[i]]_vars

\* C8: on_modify with a quantity not above the current one changes only that
\* order's quantity: same index, same live counts, every other live order
\* unchanged.
C8_DecreaseInPlace ==
    [][CallStep("modify") /\ last'.quantity <= OldQuantity(last'.id) =>
        LET side == SideOf(Book, last'.id)
            idx == IdxOf(Book, last'.id)
        IN /\ SideLive(Book', side)
                = [SideLive(Book, side) EXCEPT ![idx].quantity = last'.quantity]
           /\ SideLive(Book', Other(side)) = SideLive(Book, Other(side))]_vars

\* C8 witness: an on_modify to the smallest quantity has just been made on an
\* order that rests above another order of its price, and it has stayed there
C8_Witness ==
    /\ last.op = "modify" /\ last.quantity = 1
    /\ Live(Book, last.id)
    /\ IdxOf(Book, last.id) > 1
    /\ BlockStart(SideOrders(Book, SideOf(Book, last.id)), IdxOf(Book, last.id))
          < IdxOf(Book, last.id)

\* C9: on_trade with a fill below the resting quantity leaves the order live
\* at its index with the quantity reduced by the fill; live counts and every
\* other live order are unchanged.
C9_PartialFillInPlace ==
    [][CallStep("trade") /\ last'.quantity < OldQuantity(last'.id) =>
        LET side == SideOf(Book, last'.id)
            idx == IdxOf(Book, last'.id)
        IN /\ SideLive(Book', side)
                = [SideLive(Book, side) EXCEPT
                     ![idx].quantity = OldQuantity(last'.id) - last'.quantity]
           /\ SideLive(Book', Other(side)) = SideLive(Book, Other(side))]_vars

\* C9 witness: an on_trade has just been made and its order still rests
C9_Witness == last.op = "trade" /\ Live(Book, last.id)

\* C10: on_trade with a fill equal to the resting quantity results in the
\* book on_cancel of that id results in: same live sequences, counts and
\* quotes, the order's side holding one order less.
C10_FullFillIsCancel ==
    [][CallStep("trade") /\ last'.quantity = OldQuantity(last'.id) =>
        LET side == SideOf(Book, last'.id)
        IN /\ View(Book') = View(on_cancel(Book, last'.id))
           /\ SideFilled(Book', side) = SideFilled(Book, side) - 1
           /\ SideFilled(Book', Other(side)) = SideFilled(Book, Other(side))]_vars

\* C10 witness: an on_trade has just removed its order while another order
\* rests in the book
C10_Witness ==
    /\ last.op = "trade" /\ ~Live(Book, last.id)
    /\ orders_filled_ask_ + orders_filled_bid_ > 0

\* C11: an on_add of a fresh id immediately followed by the on_cancel of
\* that id leaves both sides' live counts and live order sequences (ids,
\* prices and quantities, in index order) exactly as they were before the
\* on_add.  pre_add.set says that the last two calls were such a pair, and
\* pre_add.live holds the live orders from before the on_add.
C11_AddCancelRoundTrip ==
    (last.op = "cancel" /\ pre_add.set) => LiveOrders(Book) = pre_add.live

\* the sum of the quantities of the first orders_filled slots
RECURSIVE SumQuantity(_, _)
SumQuantity(orders, orders_filled) ==
    IF orders_filled = 0 THEN 0
    ELSE SumQuantity(orders, orders_filled - 1) + orders[orders_filled - 1].quantity

\* C12: at every point of a sequence of on_add, on_cancel and on_trade calls
\* that respects the preconditions, the sum of the quantities of the live
\* orders of both sides equals the total quantity added, minus the total
\* quantity filled by on_trade, minus the total resting quantity of the
\* orders removed by on_cancel.  net_quantity is that balance.
C12_QuantityConserved ==
    outcome = "returned" =>
        SumQuantity(orders_ask_, orders_filled_ask_)
            + SumQuantity(orders_bid_, orders_filled_bid_) = net_quantity

\* C13: depth_at(side, price) returns the sum of the quantities of the live
\* orders of that side resting at exactly that price (0 when there is none).
\* (depth_at is a const member function of a book passed by value here, so
\* the call cannot change the book.)
C13_DepthIsSumAtPrice ==
    \A side \in {"Bid", "Ask"}, price \in Prices :
        depth_at(Book, side, price).value
            = QuantityAt(SideOrders(Book, side), SideFilled(Book, side), price)

\* the best quote of a side
SideQuote(b, side) == IF side = "Ask" THEN b.best_quote_ask_ ELSE b.best_quote_bid_

\* the live sequence, the live count and the best quote of a side are the
\* same before and after the step
SideUntouched(side) ==
    /\ SideLive(Book', side) = SideLive(Book, side)
    /\ SideFilled(Book', side) = SideFilled(Book, side)
    /\ SideQuote(Book', side) = SideQuote(Book, side)

\* C15: every mutating operation on side S (an on_add with side S, or an
\* on_cancel, on_modify or on_trade of an order that rests on S) leaves the
\* opposite side's live sequence, live count and best quote unchanged.
C15_SideIsolation ==
    [][/\ AddStep => SideUntouched(Other(last'.side))
       /\ \A op \in {"cancel", "modify", "trade"} :
              CallStep(op) => SideUntouched(Other(SideOf(Book, last'.id)))]_vars

\* the call has failed loudly: it has aborted, and both sides' live
\* sequences, live counts and best quotes are as before it
FailedLoudly == outcome' = "aborted" /\ View(Book') = View(Book)

\* the step is an on_cancel, on_modify or on_trade of an id that is not live
NotLiveStep ==
    /\ last'.op \in {"cancel", "modify", "trade"}
    /\ outcome = "returned"
    /\ ~Live(Book, last'.id)

\* C16: on_cancel, on_modify and on_trade called with an order id that is
\* not live (never added, or removed before) fail loudly - the call aborts -
\* and never modify either side's live sequence, live count or best quote.
C16_NotLiveFailsLoudly == [][NotLiveStep => FailedLoudly]_vars

\* the step is an on_add of an id that is live
LiveIdAddStep == last'.op = "add" /\ outcome = "returned" /\ Live(Book, last'.id)

\* no id is held by two live slots
IdsUnique(b) ==
    \A s1, s2 \in {"Bid", "Ask"} :
        \A i \in LiveIdx(SideFilled(b, s1)), j \in LiveIdx(SideFilled(b, s2)) :
            SideOrders(b, s1)[i].id = SideOrders(b, s2)[j].id => (s1 = s2 /\ i = j)

\* C17: on_add called with an order id that is live fails loudly instead of
\* inserting a second order with that id, so that in every state reached
\* each order id appears at most once across both live prefixes.
C17_LiveIdAddFailsLoudly ==
    [][(LiveIdAddStep => FailedLoudly) /\ IdsUnique(Book')]_vars

\* the step is an on_add, on_modify or on_trade with a quantity <= 0
NonPositiveStep ==
    /\ last'.op \in {"add", "modify", "trade"}
    /\ outcome = "returned"
    /\ last'.quantity <= 0

\* every live order has a positive quantity
QuantitiesPositive(b) ==
    \A side \in {"Bid", "Ask"} :
        \A i \in LiveIdx(SideFilled(b, side)) : SideOrders(b, side)[i].quantity > 0

\* C18: on_add with quantity <= 0, on_modify with new_quantity <= 0 and
\* on_trade with trade_quantity <= 0 each abort the call and leave the book
\* unchanged, so that no live order ever has a quantity <= 0.
C18_NonPositiveFailsLoudly ==
    [][(NonPositiveStep => FailedLoudly) /\ QuantitiesPositive(Book')]_vars

\* the step is an on_trade of a live order for more than it rests with
OverfillStep ==
    /\ last'.op = "trade"
    /\ outcome = "returned"
    /\ Live(Book, last'.id)
    /\ last'.quantity > OldQuantity(last'.id)

\* C19: on_trade with a fill quantity above the order's resting quantity
\* fails loudly before any change: the order's quantity, its position and
\* its side's best quote are as before the call.
C19_OverfillFailsLoudly == [][OverfillStep => FailedLoudly]_vars

\* the step is an on_add on a side that holds max_number_live_orders orders
FullSideAddStep ==
    /\ last'.op = "add"
    /\ outcome = "returned"
    /\ SideFilled(Book, last'.side) = max_number_live_orders

\* C20: on_add on a side that already holds max_number_live_orders live
\* orders fails loudly, without writing any array slot and without changing
\* the live count or the best quote.
C20_FullSideAddFailsLoudly ==
    [][FullSideAddStep => outcome' = "aborted" /\ Book' = Book]_vars

\* the step removes a live order: an on_cancel, or an on_trade for the whole
\* resting quantity
RemovalStep ==
    \/ CallStep("cancel")
    \/ CallStep("trade") /\ last'.quantity = OldQuantity(last'.id)

\* the order is live, rests at the best price of its side and is the only
\* live order there, and the side holds other orders
SoleBestOrder(b, order_id) ==
    LET side == SideOf(b, order_id)
        orders == SideOrders(b, side)
        filled == SideFilled(b, side)
        idx == IdxOf(b, order_id)
    IN /\ filled > 1
       /\ orders[idx].price = BestPrice(orders, filled, side)
       /\ \A i \in LiveIdx(filled) : orders[i].price = orders[idx].price => i = idx

\* the sum of the quantities of the contiguous run of equal-price slots that
\* ends at idx
RECURSIVE BlockQuantity(_, _)
BlockQuantity(orders, idx) ==
    orders[idx].quantity
        + (IF idx > 0 /\ orders[idx - 1].price = orders[idx].price
           THEN BlockQuantity(orders, idx - 1) ELSE 0)

\* C21: when on_cancel, or an on_trade that exhausts its order, removes the
\* only live order at the best price of a side on which other orders remain,
\* the new best quote has the price of the new last live slot, and as
\* quantity the sum of the quantities of every live order of the contiguous
\* block at that price.
C21_RecomputedOverWholeBlock ==
    [][RemovalStep /\ SoleBestOrder(Book, last'.id) =>
        LET side == SideOf(Book, last'.id)
            after == SideOrders(Book', side)
            top == SideFilled(Book', side) - 1
        IN SideQuote(Book', side)
               = [price |-> after[top].price,
                  quantity |-> BlockQuantity(after, top)]]_vars

\* price p is strictly better than price q on the side: lower for an ask,
\* higher for a bid
Better(side, p, q) == IF side = "Ask" THEN p < q ELSE p > q

\* C22: after on_add(id, S, p, q) on side S with quote Q before the call, the
\* quote of S is (p, q) if S held no live order; (p, q) if p is strictly
\* better than Q.price; (Q.price, Q.quantity + q) if p = Q.price; and Q if p
\* is strictly worse.
C22_QuoteRuleOnAdd ==
    [][AddStep =>
        LET side == last'.side
            Q == SideQuote(Book, side)
            new == [price |-> last'.price, quantity |-> last'.quantity]
        IN SideQuote(Book', side)
               = IF SideFilled(Book, side) = 0 THEN new
                 ELSE IF Better(side, last'.price, Q.price) THEN new
                 ELSE IF last'.price = Q.price
                 THEN [Q EXCEPT !.quantity = Q.quantity + last'.quantity]
                 ELSE Q]_vars

\* the step edits the quantity of an order that stays live: an on_modify, or
\* an on_trade for less than the resting quantity
EditStep ==
    \/ CallStep("modify")
    \/ CallStep("trade") /\ last'.quantity < OldQuantity(last'.id)

\* the quantity the order of the step rests with after it
NewQuantity ==
    IF last'.op = "modify" THEN last'.quantity
    ELSE OldQuantity(last'.id) - last'.quantity

\* C23: for on_modify(id, newQty) and for a partial on_trade(id, fillQty), if
\* the order's price equals the quote price of its side the quote quantity
\* changes by exactly the order's new quantity minus its old quantity, and
\* otherwise the quote quantity is unchanged; the quote price is unchanged in
\* both cases.
C23_QuoteRuleOnEdit ==
    [][EditStep =>
        LET side == SideOf(Book, last'.id)
            order == SideOrders(Book, side)[IdxOf(Book, last'.id)]
            Q == SideQuote(Book, side)
        IN /\ SideQuote(Book', side).price = Q.price
           /\ SideQuote(Book', side).quantity
                 = IF order.price = Q.price
                   THEN Q.quantity + NewQuantity - order.quantity
                   ELSE Q.quantity]_vars

\* C23 witness: an on_modify has just raised the quantity of an order that
\* rests at the quote price of its side next to another order of that price
C23_Witness ==
    /\ last.op = "modify" /\ last.quantity = MaxQty
    /\ Live(Book, last.id)
    /\ LET side == SideOf(Book, last.id)
           orders == SideOrders(Book, side)
           idx == IdxOf(Book, last.id)
       IN /\ orders[idx].price = SideQuote(Book, side).price
          /\ \E i \in LiveIdx(SideFilled(Book, side)) :
                i # idx /\ orders[i].price = orders[idx].price
          /\ SideQuote(Book, side).quantity > orders[idx].quantity

\* C24: on_cancel(id) with id live removes exactly that order: the live
\* count of the order's side decreases by one, the id is in no live prefix
\* any more, and the other live orders of the side keep their ids, prices,
\* quantities and relative order - those above the removed index move down
\* by exactly one index, those below keep their index.
C24_CancelRemovesExactlyThat ==
    [][CallStep("cancel") =>
        LET side == SideOf(Book, last'.id)
            orders == SideOrders(Book, side)
            after == SideOrders(Book', side)
            idx == IdxOf(Book, last'.id)
        IN /\ SideFilled(Book', side) = SideFilled(Book, side) - 1
           /\ ~Live(Book', last'.id)
           /\ \A i \in LiveIdx(SideFilled(Book, side)) :
                 /\ i < idx => after[i] = orders[i]
                 /\ i > idx => after[i - 1] = orders[i]]_vars

\* C24 witness: an on_cancel has just removed an ask priced above the two
\* asks that remain, so it has left index 0 and both of them have moved down
\* (the slot behind the live prefix still holds the removed order)
C24_Witness ==
    /\ last.op = "cancel"
    /\ ~Live(Book, last.id)
    /\ orders_filled_ask_ = 2
    /\ orders_ask_[2].id = last.id
    /\ orders_ask_[2].price > orders_ask_[0].price

\* OrderBook::validate, the checks of one side's quote that the claim names:
\* assert(quote_empty == (quantity == missing_quantity)), which is also the
\* assert of BestQuote::is_empty, and for a quote that is not empty
\* assert(quantity > 0) and assert(price == orders[orders_filled - 1].price)
\* (no slot is the last live one when orders_filled = 0)
validate_quote(q, orders, orders_filled) ==
    /\ is_empty_assert(q)
    /\ ~is_empty(q) =>
          /\ q.quantity > 0
          /\ orders_filled > 0
          /\ q.price = orders[orders_filled - 1].price

\* C25: in every state reached by operations that respect the preconditions
\* validate() passes as far as its quote checks go - a quote that is not
\* empty has a strictly positive quantity and the price of its side's last
\* live slot - and the pairing asserted by BestQuote::is_empty (the price is
\* missing exactly when the quantity is missing) holds, so that best_bid()
\* and best_ask() never abort.
C25_QuoteChecksPass ==
    \A side \in {"Bid", "Ask"} :
        validate_quote(SideQuote(Book, side), SideOrders(Book, side),
                       SideFilled(Book, side))

\* the highest index on_add(.., side, price, ..) reads or writes in the
\* array of its side: highest_index, for either side
highest_index_add(b, side, price) ==
    IF side = "Ask" THEN highest_index(b, price)
    ELSE IF lower_bound(b.orders_bid_, 0, b.orders_filled_bid_, price, "Bid")
                = b.orders_filled_bid_
    THEN b.orders_filled_bid_
    ELSE b.orders_filled_bid_ + 1

\* cancel_order_by_idx: the index at which for(i = orders_filled - 1;
\* orders[i].price == best_quote.price; ++i) reads a price that ends it
RECURSIVE sum_block_end(_, _, _)
sum_block_end(orders, i, price) ==
    IF OrderAt(orders, i).price = price
    THEN sum_block_end(orders, i + 1, price)
    ELSE i

\* the highest index on_cancel(order_id) reads or writes in the array of the
\* order's side: idx, the last index of the block sum when the quote is
\* recomputed, and orders_filled (after --orders_filled) in the last swap of
\* the closing loop
highest_index_cancel(b, order_id) ==
    LET f == find_order_by_id(b, order_id)
        orders == IF f.is_ask THEN ask_memory(b) ELSE b.orders_bid_
        orders_filled == (IF f.is_ask THEN b.orders_filled_ask_
                          ELSE b.orders_filled_bid_) - 1
        q == IF f.is_ask THEN b.best_quote_ask_ ELSE b.best_quote_bid_
        summed == IF /\ q.price = orders[f.idx].price
                     /\ q.quantity = orders[f.idx].quantity
                     /\ orders_filled > 0
                  THEN sum_block_end(orders, orders_filled - 1,
                                     orders[orders_filled - 1].price)
                  ELSE 0
        swapped == IF f.idx < orders_filled THEN orders_filled ELSE f.idx
    IN IF summed > swapped THEN summed ELSE swapped

\* the step is an on_add on a side that holds fewer than
\* max_number_live_orders orders
WithinCapacityAddStep ==
    /\ last'.op = "add" /\ n_added' = n_added + 1
    /\ outcome = "returned"
    /\ SideFilled(Book, last'.side) < max_number_live_orders

\* C26: within capacity no operation touches a slot outside the array: every
\* index that an on_add on a side holding fewer than max_number_live_orders
\* orders reads or writes (the add that brings the side to the maximum
\* included, at any insertion position), and every index an on_cancel reads
\* or writes, lies in 0 .. max_number_live_orders - 1.  (on_modify and
\* on_trade index no slot above the order's own.)
C26_IndicesWithinArray ==
    [][/\ WithinCapacityAddStep =>
              highest_index_add(Book, last'.side, last'.price) \in ArraySlots
       /\ CallStep("cancel") =>
              highest_index_cancel(Book, last'.id) \in ArraySlots]_vars
====
